---- MODULE Spec2Model ----
(***************************************************************************)
(* Model of stacker's squashfs package: the ExcludePaths path algebra,     *)
(* GenerateSquashfsLayer and ExtractSingleSquash.                          *)
(*                                                                         *)
(* A path is a sequence of one-character strings, so that the string       *)
(* operations of the Go code (strings.HasPrefix, path.Dir, path.Base,      *)
(* path.Join, strings.Replace) are computed character by character.        *)
(***************************************************************************)
EXTENDS Integers, Sequences, FiniteSets, TLC

VARIABLES
    \* ---- ExcludePaths driven directly through its API (SpecEps)
    eps,            \* the ExcludePaths value: [exclude: set of paths, include: seq of paths]
    log,            \* history: the calls made so far, in order
    \* ---- GenerateSquashfsLayer (Spec)
    pc,             \* position inside GenerateSquashfsLayer
    fs,             \* the file system below bundlepath/rootfs: host path -> entry
    mtrees,         \* the manifest files of the bundle directory: file path -> content
    metaDisk,       \* the persisted bundle meta (its From.Walk)
    meta,           \* local variable meta (its From.Walk)
    mtreePath,      \* local variable mtreePath
    todo,           \* the diff entries the loop has not visited yet
    needsLayer,     \* local variable needsLayer
    paths,          \* local variable paths (an ExcludePaths)
    missing,        \* local variable missing (the cleanup list)
    desc,           \* local variable desc
    result,         \* what the call returned: "none" (running), "ok", "err"
    storeCalls,     \* history: number of AddBlobNoCompression calls
    archiverCalls,  \* history: number of mksquashfs runs
    metaWrites,     \* history: number of WriteBundleMeta calls
    start,          \* history: fs, mtrees, metaDisk when the call began, and the filtered diffs
    whiteouts,      \* history: one record per Missing entry the loop has handled
    tempdir,        \* the temporary files of MakeSquashfs visible in tempdir
    handle,         \* the reader MakeSquashfs returned: "none", "open", "closed"
    archived,       \* history: what each mksquashfs run was given (rootfs, exclude list)
    \* ---- ExtractSingleSquash (SpecExtract)
    xpc,            \* position inside ExtractSingleSquash
    xdir,           \* state of extractDir: "absent", "empty", "full"
    xdir0,          \* history: state of extractDir when the call began
    envPath,        \* $PATH, a sequence of directories
    execs,          \* the files unix.Access(.., X_OK) accepts
    storageType,    \* argument storageType
    xcmd,           \* the command line handed to exec.Command, <<>> when none was run
    xresult         \* what the call returned: "none", "ok", "err_mkdir", "err_tool", "err_run"

epsVars == <<eps, log>>
genVars == <<pc, fs, mtrees, metaDisk, meta, mtreePath, todo, needsLayer, paths,
             missing, desc, result, storeCalls, archiverCalls, metaWrites, start,
             whiteouts, tempdir, handle, archived>>
xVars == <<xpc, xdir, xdir0, envPath, execs, storageType, xcmd, xresult>>
vars == <<epsVars, genVars, xVars>>

----------------------------------------------------------------------------
(* Strings and paths                                                        *)

Slash == "/"
Root == <<"/">>
Dot == <<".">>

\* strings.HasPrefix(s, prefix)
HasPrefix(s, prefix) ==
    /\ Len(prefix) <= Len(s)
    /\ SubSeq(s, 1, Len(prefix)) = prefix

\* index of the last "/" of p, 0 when there is none (strings.LastIndex + 1)
LastSlash(p) ==
    LET idx == {i \in 1..Len(p) : p[i] = Slash}
    IN  IF idx = {} THEN 0 ELSE CHOOSE i \in idx : \A j \in idx : j <= i

RECURSIVE SplitAcc(_, _, _)
SplitAcc(p, cur, acc) ==
    IF p = <<>> THEN Append(acc, cur)
    ELSE IF Head(p) = Slash THEN SplitAcc(Tail(p), <<>>, Append(acc, cur))
    ELSE SplitAcc(Tail(p), Append(cur, Head(p)), acc)

\* strings.Split(p, "/")
SplitSlash(p) == SplitAcc(p, <<>>, <<>>)

RECURSIVE JoinSlash(_)
\* strings.Join(elems, "/")
JoinSlash(elems) ==
    IF elems = <<>> THEN <<>>
    ELSE IF Len(elems) = 1 THEN elems[1]
    ELSE elems[1] \o <<Slash>> \o JoinSlash(Tail(elems))

IsName(c) == c # <<>> /\ c # Dot

\* path.Clean on paths without ".." elements: drops empty and "." elements
Clean(p) ==
    LET comps == SelectSeq(SplitSlash(p), IsName)
        body == JoinSlash(comps)
    IN  IF p # <<>> /\ p[1] = Slash THEN Root \o body
        ELSE IF body = <<>> THEN Dot
        ELSE body

\* path.Dir(p): everything up to the last slash, cleaned
Dir(p) == Clean(SubSeq(p, 1, LastSlash(p)))

\* path.Base(p) for a clean path
Base(p) ==
    IF p = <<>> THEN Dot
    ELSE IF p = Root THEN Root
    ELSE SubSeq(p, LastSlash(p) + 1, Len(p))

NonEmpty(e) == e # <<>>

\* path.Join(elems...): empty elements are ignored, the result is cleaned
Join(elems) ==
    LET ne == SelectSeq(elems, NonEmpty)
    IN  IF ne = <<>> THEN <<>> ELSE Clean(JoinSlash(ne))

\* p is q or a directory above q (directory-hierarchy prefix)
RECURSIVE IsAncestorOrSelf(_, _)
IsAncestorOrSelf(p, q) ==
    IF p = q THEN TRUE
    ELSE IF q = Root \/ q = Dot THEN FALSE
    ELSE IsAncestorOrSelf(p, Dir(q))

IsStrictAncestor(p, q) == p # q /\ IsAncestorOrSelf(p, q)

----------------------------------------------------------------------------
(* ExcludePaths                                                             *)

\* NewExcludePaths()
NewExcludePaths == [exclude |-> {}, include |-> <<>>]

\* mutant: AddExclude without the loop over the include list
AddExclude_NoIncludeCheck(e, p) == [e EXCEPT !.exclude = @ \cup {p}]

\* (eps *ExcludePaths) AddExclude(p)
AddExclude(e, p) ==
    IF \E i \in 1..Len(e.include) : HasPrefix(e.include[i], p)
    THEN e
    ELSE [e EXCEPT !.exclude = @ \cup {p}]

RECURSIVE RemoveUpwards(_, _)
\* the for loop of AddInclude: delete p and its parents, stopping at "/"
RemoveUpwards(ex, p) ==
    IF p = Root THEN ex
    ELSE RemoveUpwards(ex \ {p}, Dir(p))

\* mutant: AddInclude that does not retain a path below an included directory
AddInclude_DropsRedundant(e, orig, isDir) ==
    LET p == IF isDir THEN orig ELSE Dir(orig)
    IN  [exclude |-> RemoveUpwards(e.exclude, p),
         include |-> IF \E i \in 1..Len(e.include) : IsStrictAncestor(e.include[i], orig)
                     THEN e.include
                     ELSE Append(e.include, orig)]

\* variant: AddInclude that starts deleting at orig whatever isDir says
AddInclude_IgnoresIsDir(e, orig, isDir) ==
    [exclude |-> RemoveUpwards(e.exclude, orig),
     include |-> Append(e.include, orig)]

\* (eps *ExcludePaths) AddInclude(orig, isDir)
AddInclude(e, orig, isDir) ==
    LET p == IF isDir THEN orig ELSE Dir(orig)
    IN  [exclude |-> RemoveUpwards(e.exclude, p),
         include |-> Append(e.include, orig)]

----------------------------------------------------------------------------
(* SpecEps: an ExcludePaths value driven by arbitrary API calls             *)

MaxCalls == 3

\* the absolute paths the calls draw from: "/a", "/ab", "/a/b", "/a/b/c",
\* "/a/c" (callers pass paths below a rootfs directory, so "/" is not one)
EpsPaths ==
    { <<"/", "a">>,
      <<"/", "a", "b">>,
      <<"/", "a", "/", "b">>,
      <<"/", "a", "/", "b", "/", "c">>,
      <<"/", "a", "/", "c">> }

ExCall(p) == [op |-> "AddExclude", path |-> p, isDir |-> FALSE]
IncCall(p, d) == [op |-> "AddInclude", path |-> p, isDir |-> d]

\* the other operations' variables, at rest
GenIdle ==
    /\ pc = "idle" /\ fs = <<>> /\ mtrees = <<>> /\ metaDisk = <<>> /\ meta = <<>>
    /\ mtreePath = <<>> /\ todo = {} /\ needsLayer = FALSE
    /\ paths = NewExcludePaths /\ missing = <<>> /\ desc = <<>> /\ result = "none"
    /\ storeCalls = 0 /\ archiverCalls = 0 /\ metaWrites = 0 /\ start = <<>>
    /\ whiteouts = {}
    /\ tempdir = {} /\ handle = "none" /\ archived = <<>>

ExtractIdle ==
    /\ xpc = "idle" /\ xdir = "absent" /\ xdir0 = "absent" /\ envPath = <<>>
    /\ execs = {} /\ storageType = "" /\ xcmd = <<>> /\ xresult = "none"

EpsIdle == eps = NewExcludePaths /\ log = <<>>

InitEps ==
    /\ eps = NewExcludePaths
    /\ log = <<>>
    /\ GenIdle
    /\ ExtractIdle

CallAddExclude ==
    /\ Len(log) < MaxCalls
    /\ \E p \in EpsPaths :
        /\ eps' = AddExclude(eps, p)
        /\ log' = Append(log, ExCall(p))
    /\ UNCHANGED <<genVars, xVars>>

CallAddInclude ==
    /\ Len(log) < MaxCalls
    /\ \E p \in EpsPaths, d \in BOOLEAN :
        /\ eps' = AddInclude(eps, p, d)
        /\ log' = Append(log, IncCall(p, d))
    /\ UNCHANGED <<genVars, xVars>>

NextEps == CallAddExclude \/ CallAddInclude

SpecEps == InitEps /\ [][NextEps]_vars

\* the orig arguments of the AddInclude calls of a log, in call order
RECURSIVE IncludedArgs(_)
IncludedArgs(l) ==
    IF l = <<>> THEN <<>>
    ELSE IF l[1].op = "AddInclude" THEN <<l[1].path>> \o IncludedArgs(Tail(l))
    ELSE IncludedArgs(Tail(l))

IncludeSet(e) == {e.include[i] : i \in 1..Len(e.include)}

\* C1 (as claimed): no path of the exclude set is equal to, or a directory
\* above, a path of the include list.
C1_SubtreeSafety ==
    \A x \in eps.exclude : \A q \in IncludeSet(eps) : ~IsAncestorOrSelf(x, q)

\* C2 (as claimed): no path of the include list is a strict ancestor
\* directory of another path of the include list.
C2_NoIncludedAncestor ==
    \A p \in IncludeSet(eps) : \A q \in IncludeSet(eps) : ~IsStrictAncestor(p, q)

\* C2 (amended): the include list is exactly the orig arguments of the
\* AddInclude calls made so far, in call order; nothing is dropped, also not a
\* path whose strict ancestor is already listed.
C2_IncludeIsCallHistory == eps.include = IncludedArgs(log)

\* C2 witness: a directory was included and then a path below it, and both
\* are in the include list.
C2_Witness ==
    \E i \in 1..Len(log) : \E j \in 1..Len(log) :
        /\ i < j
        /\ log[i].op = "AddInclude" /\ log[j].op = "AddInclude"
        /\ IsStrictAncestor(log[i].path, log[j].path)
        /\ log[i].path \in IncludeSet(eps) /\ log[j].path \in IncludeSet(eps)

\* C3: once a non-directory f was announced with AddInclude(f, false), the
\* exclude set holds none of f's strict ancestors below "/", whether they were
\* excluded before or after the include.
C3_AncestorsRetracted ==
    \A i \in 1..Len(log) :
        (log[i].op = "AddInclude" /\ ~log[i].isDir) =>
            \A a \in eps.exclude :
                a = Root \/ ~IsStrictAncestor(a, log[i].path)

\* C3 witness: one ancestor of f was excluded before the include of f and
\* another one after it, and neither is in the exclude set.
C3_Witness ==
    \E i \in 1..Len(log) : \E j \in 1..Len(log) : \E k \in 1..Len(log) :
        /\ i < j /\ j < k
        /\ log[i].op = "AddExclude" /\ log[k].op = "AddExclude"
        /\ log[j].op = "AddInclude" /\ ~log[j].isDir
        /\ log[i].path # Root /\ log[k].path # Root
        /\ log[i].path # log[k].path
        /\ IsStrictAncestor(log[i].path, log[j].path)
        /\ IsStrictAncestor(log[k].path, log[j].path)
        /\ log[i].path \notin eps.exclude /\ log[k].path \notin eps.exclude

\* the paths from p down to q, q itself left out unless it is p
Between(p, q) ==
    {x \in EpsPaths : IsAncestorOrSelf(p, x) /\ IsAncestorOrSelf(x, q) /\ (x = p \/ x # q)}

\* C12 (as claimed): when AddInclude(p, .) was followed by AddInclude(q, .)
\* with p a directory-hierarchy prefix of q (q or a directory above q), the
\* exclude set holds neither p nor a directory between p and q, whatever
\* AddExclude calls were made before, between or after.
C12_IncludeMinimality ==
    \A i \in 1..Len(log) : \A j \in 1..Len(log) :
        (/\ i < j
         /\ log[i].op = "AddInclude" /\ log[j].op = "AddInclude"
         /\ IsAncestorOrSelf(log[i].path, log[j].path)) =>
            Between(log[i].path, log[j].path) \cap eps.exclude = {}

\* the part of C12 the code keeps: the same with q strictly below p
C12_StrictlyBelowCleared ==
    \A i \in 1..Len(log) : \A j \in 1..Len(log) :
        (/\ i < j
         /\ log[i].op = "AddInclude" /\ log[j].op = "AddInclude"
         /\ IsStrictAncestor(log[i].path, log[j].path)) =>
            Between(log[i].path, log[j].path) \cap eps.exclude = {}

\* the call the step from log to log' made
LastCall == log'[Len(log')]

\* C14 (as claimed): AddExclude(p) leaves the exclude set and the include
\* list unchanged exactly when some path of the include list is p or lies
\* below p; otherwise it adds p to the exclude set and changes nothing else.
C14_ExcludeRefusedIffIncludedBelow ==
    [][(Len(log') = Len(log) + 1 /\ LastCall.op = "AddExclude") =>
        IF \E q \in IncludeSet(eps) : IsAncestorOrSelf(LastCall.path, q)
        THEN eps' = eps
        ELSE eps' = [eps EXCEPT !.exclude = @ \cup {LastCall.path}]]_vars

----------------------------------------------------------------------------
(* SpecInc: AddInclude applied to an arbitrary exclude set                  *)

MaxIncludes == 2

\* the absolute paths of SpecInc: those of SpecEps and "/"
IncPaths == EpsPaths \cup {Root}

\* an exclude set AddExclude calls on a fresh ExcludePaths can have built
InitInc ==
    /\ \E ex \in SUBSET IncPaths : eps = [NewExcludePaths EXCEPT !.exclude = ex]
    /\ log = <<>>
    /\ GenIdle
    /\ ExtractIdle

\* one AddInclude call; the log keeps the exclude set the call found
ApplyAddInclude ==
    /\ Len(log) < MaxIncludes
    /\ \E p \in IncPaths, d \in BOOLEAN :
        /\ eps' = AddInclude(eps, p, d)
        /\ log' = Append(log, [op |-> "AddInclude", path |-> p, isDir |-> d,
                               before |-> eps.exclude])
    /\ UNCHANGED <<genVars, xVars>>

NextInc == ApplyAddInclude

SpecInc == InitInc /\ [][NextInc]_vars

\* p and the directories above p, "/" left out
Chain(p) == {x \in IncPaths : x # Root /\ IsAncestorOrSelf(x, p)}

\* the exclude set call i of the log left behind
ExcludeAfter(i) == IF i = Len(log) THEN eps.exclude ELSE log[i + 1].before

----------------------------------------------------------------------------
(* The bundle: rootfs, manifest files, meta                                 *)

\* argument bundlepath
BundlePath == <<"/", "B">>

\* the literal "rootfs" of path.Join(bundlepath, "rootfs")
RootfsName == <<"r", "o", "o", "t", "f", "s">>

\* rootfsPath := path.Join(bundlepath, "rootfs")
rootfsPath == Join(<<BundlePath, RootfsName>>)

\* the paths diff.Path() ranges over, relative to the rootfs: ".", "a",
\* "a/b", "ab"
RelPaths ==
    { Dot,
      <<"a">>,
      <<"a", "/", "b">>,
      <<"a", "b">> }

\* the literal ".wh." of fmt.Sprintf(".wh.%s", ...)
WhPrefix == <<".", "w", "h", ".">>

\* fname := fmt.Sprintf(".wh.%s", path.Base(diff.Path()))
WhName(rel) == WhPrefix \o Base(rel)

\* whPath := path.Join(rootfsPath, dirname, fname)
WhPath(rel) == Join(<<rootfsPath, Dir(rel), WhName(rel)>>)

\* the same file, relative to the rootfs, as a walk of the rootfs names it
WhRel(rel) == Join(<<Dir(rel), WhName(rel)>>)

\* p := path.Join(rootfsPath, diff.Path())
HostPath(rel) == Join(<<rootfsPath, rel>>)

\* every path a walk of the rootfs can meet
AllRel == RelPaths \cup {WhRel(r) : r \in RelPaths \ {Dot}}
FsPaths == {HostPath(r) : r \in AllRel}

NoEntry == [kind |-> "none", ver |-> 0]
FileEntry(v) == [kind |-> "file", ver |-> v]
DirEntry(v) == [kind |-> "dir", ver |-> v]
\* a character device with device number 0/0
ChrEntry == [kind |-> "chr", ver |-> 0]

\* the digests a descriptor can carry, as Digest.String() prints them
D1 == <<"d", ":", "1">>
D2 == <<"d", ":", "2">>
Digests == {D1, D2}

Descriptor(d) == [digest |-> d]

\* casext.DescriptorPath.Descriptor(): the last descriptor of the walk
PathDescriptor(walk) == walk[Len(walk)]

\* strings.Replace(s, ":", "_", 1)
RECURSIVE ReplaceColon(_)
ReplaceColon(s) ==
    IF s = <<>> THEN <<>>
    ELSE IF Head(s) = ":" THEN <<"_">> \o Tail(s)
    ELSE <<Head(s)>> \o ReplaceColon(Tail(s))

MtreeSuffix == <<".", "m", "t", "r", "e", "e">>

\* mtreeName := strings.Replace(digest, ":", "_", 1);
\* mtreePath := path.Join(bundlepath, mtreeName+".mtree")
MtreePathOf(digest) == Join(<<BundlePath, ReplaceColon(digest) \o MtreeSuffix>>)

\* newName := strings.Replace(desc.Digest.String(), ":", "_", 1) + ".mtree";
\* umoci.GenerateBundleManifest stores the manifest under that name in bundlepath
NewManifestPath(digest) == Join(<<BundlePath, ReplaceColon(digest) \o MtreeSuffix>>)

\* the files of the bundle directory are a function from the paths that
\* exist to their content
Exists(files, f) == f \in DOMAIN files

\* creating or overwriting file f with content c
WriteFile(files, f, c) ==
    [g \in DOMAIN files \cup {f} |-> IF g = f THEN c ELSE files[g]]

\* os.Remove(f) on a regular file, its error ignored
\* variant: os.Remove(mtreePath) leaves the file in place
RemoveFile_Keeps(files, f) == files

RemoveFile(files, f) == [g \in DOMAIN files \ {f} |-> files[g]]

\* mtree.Walk(rootfsPath, ...): the entries of the rootfs by relative path
Walk(f) == [r \in AllRel |-> f[HostPath(r)]]

\* mtree.CompareSame(spec, newDH, keywords): one entry per path of the union
CompareSame(old, new) ==
    { [type |-> IF new[r].kind = "none" THEN "Missing"
                ELSE IF old[r].kind = "none" THEN "Extra"
                ELSE IF old[r] = new[r] THEN "Same"
                ELSE "Modified",
       path |-> r,
       oldIsDir |-> old[r].kind = "dir",
       newIsDir |-> new[r].kind = "dir"]
      : r \in {x \in AllRel : old[x].kind # "none" \/ new[x].kind # "none"} }

\* stackermtree.LayerGenerationIgnoreRoot: drops the entry of the rootfs itself
LayerGenerationIgnoreRoot(d) == d.path # Dot

\* mtreefilter.SimplifyFilter(diffs): drops an entry below a directory that
\* is itself Missing
SimplifyFilter(diffs, d) ==
    ~\E e \in diffs :
        /\ e.type = "Missing" /\ e.oldIsDir
        /\ IsStrictAncestor(e.path, d.path)

\* mtreefilter.FilterDeltas(diffs, LayerGenerationIgnoreRoot, SimplifyFilter(diffs))
FilterDeltas(diffs) ==
    {d \in diffs : LayerGenerationIgnoreRoot(d) /\ SimplifyFilter(diffs, d)}

----------------------------------------------------------------------------
(* System calls on the rootfs                                               *)

\* unix.Mknod(p, S_IFCHR, Mkdev(0, 0)): the outcomes the kernel can give
MknodOutcomes(f, p) ==
    IF f[Dir(p)].kind = "none" THEN {"ENOENT"}
    ELSE IF f[Dir(p)].kind # "dir" THEN {"ENOTDIR"}
    ELSE IF f[p].kind # "none" THEN {"EEXIST"}
    ELSE {"ok", "EPERM", "EACCES"}

\* os.IsNotExist(err)
IsNotExist(errno) == errno = "ENOENT"

\* mutant: only permission denied falls back to the sidecar
NeedsSidecar_OnlyEPERM(errno) == errno = "EPERM"

\* mutant: the test without "&& err != unix.ENOTDIR"
NeedsSidecar_ForgetsENOTDIR(errno) == ~IsNotExist(errno)

\* if !os.IsNotExist(err) && err != unix.ENOTDIR { ... create the sidecar ... }
NeedsSidecar(errno) == ~IsNotExist(errno) /\ errno # "ENOTDIR"

\* os.Create(whPath): the outcomes
CreateOutcomes(f, wh) ==
    IF f[Dir(wh)].kind # "dir" \/ f[wh].kind = "dir" THEN {"failed"}
    ELSE {"created", "failed"}

\* os.Remove(p), its error ignored: unlinks a file or an empty directory
OsRemove(f, p) ==
    IF f[p].kind = "none" THEN f
    ELSE IF f[p].kind = "dir"
            /\ \E q \in DOMAIN f : q # p /\ f[q].kind # "none" /\ Dir(q) = p
         THEN f
    ELSE [f EXCEPT ![p] = NoEntry]

\* mutant: the deferred function removes nothing
RemoveMissing_Nothing(f, m) == f

RECURSIVE RemoveMissing(_, _)
\* defer func() { for _, f := range missing { os.Remove(f) } }()
RemoveMissing(f, m) ==
    IF m = <<>> THEN f
    ELSE RemoveMissing(OsRemove(f, Head(m)), Tail(m))

\* variant: a Missing entry does not ask for a layer
SetsNeedsLayer_NotMissing(type) == type \in {"Modified", "Extra"}

\* mutant: every entry, Same too, asks for a layer
SetsNeedsLayer_Always(type) == TRUE

\* case mtree.Modified, mtree.Extra / case mtree.Missing: needsLayer = true
SetsNeedsLayer(type) == type \in {"Modified", "Extra", "Missing"}

\* meta.From = casext.DescriptorPath{Walk: []ispec.Descriptor{desc}}
NewWalk(walk, d) == <<d>>

----------------------------------------------------------------------------
(* MakeSquashfs                                                             *)

\* the two temporary files, by the prefix ioutil.TempFile is given
ExcludeTmp == "stacker-squashfs-exclude-"
ImgTmp == "stacker-squashfs-img-"

\* (eps *ExcludePaths) String(): one line per excluded path and a final "\n";
\* the number of "\n" written, which bounds len(toExclude) from below
StringLines(e) == Cardinality(e.exclude) + 1

\* the points at which MakeSquashfs can fail, and success
SquashOutcomes ==
    {"err_string", "err_excl_tempfile", "err_excl_write", "err_img_tempfile",
     "err_mksquashfs", "err_open", "ok"}

\* os.Open(name) on the files visible in tempdir
OsOpen(files, name) == IF name \in files THEN "open" ELSE "none"

NoSquash == [files |-> {}, defers |-> <<>>, ran |-> FALSE, handle |-> "none"]

\* the body of MakeSquashfs up to its return statement: the temporary files
\* then visible, the os.Remove calls deferred so far, whether mksquashfs was
\* run, and the handle returned.  partial: a failed mksquashfs left output.
MakeSquashfsBody(out, partial, e) ==
    LET listed == StringLines(e) # 0
        f1 == IF listed THEN {ExcludeTmp} ELSE {}
        d1 == IF listed THEN <<ExcludeTmp>> ELSE <<>>
        d2 == Append(d1, ImgTmp)
    IN  IF out = "err_string" THEN NoSquash
        ELSE IF listed /\ out = "err_excl_tempfile" THEN NoSquash
        ELSE IF listed /\ out = "err_excl_write"
        THEN [NoSquash EXCEPT !.files = f1, !.defers = d1]
        ELSE IF out = "err_img_tempfile"
        THEN [NoSquash EXCEPT !.files = f1, !.defers = d1]
        ELSE IF out = "err_mksquashfs"
        THEN [files |-> f1 \cup (IF partial THEN {ImgTmp} ELSE {}), defers |-> d2,
              ran |-> TRUE, handle |-> "none"]
        ELSE IF out = "err_open"
        THEN [files |-> f1 \cup {ImgTmp}, defers |-> d2, ran |-> TRUE, handle |-> "none"]
        ELSE [files |-> f1 \cup {ImgTmp}, defers |-> d2, ran |-> TRUE,
              handle |-> OsOpen(f1 \cup {ImgTmp}, ImgTmp)]

\* variant: only the removal of the output file is deferred
RunDefers_OnlyImg(files, defers) == files \ {ImgTmp}

\* the deferred os.Remove calls, run when MakeSquashfs returns
RunDefers(files, defers) == files \ {defers[i] : i \in DOMAIN defers}

\* variant: mksquashfs reads a rootfs without the device-node whiteouts
ArchiverInput_NoWhiteouts(f, e) ==
    [fs |-> [h \in DOMAIN f |-> IF f[h].kind = "chr" THEN NoEntry ELSE f[h]],
     exclude |-> e.exclude]

\* what mksquashfs is given: the rootfs as it stands and the exclude list
ArchiverInput(f, e) == [fs |-> f, exclude |-> e.exclude]

----------------------------------------------------------------------------
(* Spec: one call of GenerateSquashfsLayer on a bundle                      *)

TreeOf(er, ea, eb, eab) ==
    [r \in AllRel |->
        IF r = Dot THEN er
        ELSE IF r = <<"a">> THEN ea
        ELSE IF r = <<"a", "/", "b">> THEN eb
        ELSE IF r = <<"a", "b">> THEN eab
        ELSE NoEntry]

\* the trees a manifest or a rootfs can hold: "a" is absent, a file or a
\* directory, "a/b" (only below a directory) and "ab" are absent or files
Trees(vers) ==
    { TreeOf(DirEntry(rv), ea, eb, eab) :
        rv \in vers,
        ea \in {NoEntry} \cup {FileEntry(v) : v \in vers} \cup {DirEntry(v) : v \in vers},
        eb \in {NoEntry} \cup {FileEntry(v) : v \in vers},
        eab \in {NoEntry} \cup {FileEntry(v) : v \in vers} }

WellFormed(t) == t[<<"a", "/", "b">>].kind # "none" => t[<<"a">>].kind = "dir"

\* the manifest recorded at unpack time, and the rootfs the build left behind
OldTrees == {t \in Trees({0}) : WellFormed(t)}
NewTrees == {t \in Trees({0, 1}) : WellFormed(t)}

\* meta.From.Walk before the call: its last descriptor is the bundle's source
InitWalks == { <<Descriptor(D1)>>, <<Descriptor(D2), Descriptor(D1)>> }

Init ==
    /\ EpsIdle
    /\ ExtractIdle
    /\ pc = "idle"
    /\ \E old \in OldTrees, new \in NewTrees, walk \in InitWalks, present \in BOOLEAN :
        /\ fs = [h \in FsPaths |-> new[CHOOSE r \in AllRel : HostPath(r) = h]]
        /\ mtrees = [f \in IF present THEN {MtreePathOf(PathDescriptor(walk).digest)}
                                        ELSE {} |-> old]
        /\ metaDisk = walk
    /\ meta = <<>> /\ mtreePath = <<>> /\ todo = {} /\ needsLayer = FALSE
    /\ paths = NewExcludePaths /\ missing = <<>> /\ desc = <<>> /\ result = "none"
    /\ storeCalls = 0 /\ archiverCalls = 0 /\ metaWrites = 0
    /\ start = [fs |-> fs, mtrees |-> mtrees, metaDisk |-> metaDisk,
                diffed |-> FALSE, diffs |-> {}]
    /\ whiteouts = {}
    /\ tempdir = {} /\ handle = "none" /\ archived = <<>>

\* a return statement: the deferred removal of missing runs, then the caller
\* sees the result
Return(res, f, m) ==
    /\ pc' = "done"
    /\ result' = res
    /\ fs' = RemoveMissing(f, m)

\* line 281: defer tmpSquashfs.Close(), run when the call returns
CloseOnReturn ==
    handle' = IF pc' = "done" /\ handle = "open" THEN "closed" ELSE handle

\* lines 188-243: read the meta, open and parse the manifest, walk the
\* rootfs, compare, filter, initialise the locals
Begin ==
    /\ pc = "idle"
    /\ meta' = metaDisk
    /\ mtreePath' = MtreePathOf(PathDescriptor(metaDisk).digest)
    /\ \/ /\ Exists(mtrees, mtreePath')
          /\ LET diffs == FilterDeltas(CompareSame(mtrees[mtreePath'], Walk(fs)))
             IN  /\ todo' = diffs
                 /\ start' = [start EXCEPT !.diffed = TRUE, !.diffs = diffs]
          /\ pc' = "loop"
          /\ UNCHANGED <<result, fs>>
       \/ \* ReadBundleMeta, os.Open, ParseSpec, Walk or CompareSame failed
          /\ pc' = "done"
          /\ result' = "err"
          /\ UNCHANGED <<todo, start, fs>>
    /\ UNCHANGED <<mtrees, metaDisk, needsLayer, paths, missing, desc, storeCalls,
                   archiverCalls, metaWrites, whiteouts>>
    /\ CloseOnReturn
    /\ UNCHANGED <<tempdir, archived>>
    /\ UNCHANGED <<epsVars, xVars>>

\* lines 246-249: case mtree.Modified, mtree.Extra
StepModifiedExtra ==
    /\ pc = "loop"
    /\ \E d \in todo :
        /\ d.type \in {"Modified", "Extra"}
        /\ todo' = todo \ {d}
        /\ needsLayer' = (needsLayer \/ SetsNeedsLayer(d.type))
        /\ paths' = AddInclude(paths, HostPath(d.path), d.newIsDir)
    /\ UNCHANGED <<pc, fs, mtrees, metaDisk, meta, mtreePath, missing, desc, result,
                   storeCalls, archiverCalls, metaWrites, start, whiteouts>>
    /\ CloseOnReturn
    /\ UNCHANGED <<tempdir, archived>>
    /\ UNCHANGED <<epsVars, xVars>>

\* lines 250-267: case mtree.Missing
StepMissing ==
    /\ pc = "loop"
    /\ \E d \in todo :
        /\ d.type = "Missing"
        /\ todo' = todo \ {d}
        /\ needsLayer' = (needsLayer \/ SetsNeedsLayer(d.type))
        /\ LET p == HostPath(d.path)
               wh == WhPath(d.path)
           IN  /\ missing' = Append(missing, p)
               /\ paths' = AddInclude(paths, p, d.oldIsDir)
               /\ \E errno \in MknodOutcomes(fs, p) :
                    IF errno = "ok"
                    THEN /\ fs' = [fs EXCEPT ![p] = ChrEntry]
                         /\ whiteouts' = whiteouts \cup
                                {[path |-> p, wh |-> wh, errno |-> errno, sidecar |-> "none"]}
                         /\ UNCHANGED <<pc, result>>
                    ELSE IF NeedsSidecar(errno)
                    THEN \E c \in CreateOutcomes(fs, wh) :
                            /\ whiteouts' = whiteouts \cup
                                {[path |-> p, wh |-> wh, errno |-> errno, sidecar |-> c]}
                            /\ IF c = "created"
                               THEN /\ fs' = [fs EXCEPT ![wh] = FileEntry(0)]
                                    /\ UNCHANGED <<pc, result>>
                               ELSE Return("err", fs, missing')
                    ELSE /\ whiteouts' = whiteouts \cup
                                {[path |-> p, wh |-> wh, errno |-> errno, sidecar |-> "none"]}
                         /\ UNCHANGED <<pc, result, fs>>
    /\ UNCHANGED <<mtrees, metaDisk, meta, mtreePath, desc, storeCalls, archiverCalls,
                   metaWrites, start>>
    /\ CloseOnReturn
    /\ UNCHANGED <<tempdir, archived>>
    /\ UNCHANGED <<epsVars, xVars>>

\* lines 268-269: case mtree.Same
StepSame ==
    /\ pc = "loop"
    /\ \E d \in todo :
        /\ d.type = "Same"
        /\ todo' = todo \ {d}
        /\ needsLayer' = (needsLayer \/ SetsNeedsLayer(d.type))
        /\ paths' = AddExclude(paths, HostPath(d.path))
    /\ UNCHANGED <<pc, fs, mtrees, metaDisk, meta, mtreePath, missing, desc, result,
                   storeCalls, archiverCalls, metaWrites, start, whiteouts>>
    /\ CloseOnReturn
    /\ UNCHANGED <<tempdir, archived>>
    /\ UNCHANGED <<epsVars, xVars>>

\* lines 273-275: if !needsLayer { return nil }
LoopExit ==
    /\ pc = "loop"
    /\ todo = {}
    /\ IF ~needsLayer
       THEN Return("ok", fs, missing)
       ELSE /\ pc' = "squash"
            /\ UNCHANGED <<result, fs>>
    /\ UNCHANGED <<mtrees, metaDisk, meta, mtreePath, todo, needsLayer, paths, missing,
                   desc, storeCalls, archiverCalls, metaWrites, start, whiteouts>>
    /\ CloseOnReturn
    /\ UNCHANGED <<tempdir, archived>>
    /\ UNCHANGED <<epsVars, xVars>>

\* lines 277-281: tmpSquashfs, err := MakeSquashfs(ocidir, rootfsPath, paths)
RunMakeSquashfs ==
    /\ pc = "squash"
    /\ \E out \in SquashOutcomes, partial \in BOOLEAN :
        LET m == MakeSquashfsBody(out, partial, paths)
        IN  /\ tempdir' = RunDefers(tempdir \cup m.files, m.defers)
            /\ handle' = m.handle
            /\ archiverCalls' = archiverCalls + (IF m.ran THEN 1 ELSE 0)
            /\ archived' = IF m.ran THEN Append(archived, ArchiverInput(fs, paths))
                                    ELSE archived
            /\ IF out = "ok"
               THEN /\ pc' = "addblob"
                    /\ UNCHANGED <<result, fs>>
               ELSE Return("err", fs, missing)
    /\ UNCHANGED <<mtrees, metaDisk, meta, mtreePath, todo, needsLayer, paths, missing,
                   desc, storeCalls, metaWrites, start, whiteouts>>
    /\ UNCHANGED <<epsVars, xVars>>

\* lines 283-286: desc, err := stackeroci.AddBlobNoCompression(oci, name, tmpSquashfs)
AddBlob ==
    /\ pc = "addblob"
    /\ storeCalls' = storeCalls + 1
    /\ \/ \E d \in Digests :
            /\ desc' = Descriptor(d)
            /\ pc' = "manifest"
            /\ UNCHANGED <<result, fs>>
       \/ /\ Return("err", fs, missing)
          /\ UNCHANGED desc
    /\ UNCHANGED <<mtrees, metaDisk, meta, mtreePath, todo, needsLayer, paths, missing,
                   archiverCalls, metaWrites, start, whiteouts>>
    /\ CloseOnReturn
    /\ UNCHANGED <<tempdir, archived>>
    /\ UNCHANGED <<epsVars, xVars>>

\* lines 288-292: umoci.GenerateBundleManifest(newName, bundlepath, fsEval)
GenerateBundleManifest ==
    /\ pc = "manifest"
    /\ \/ /\ mtrees' = WriteFile(mtrees, NewManifestPath(desc.digest), Walk(fs))
          /\ pc' = "rmold"
          /\ UNCHANGED <<result, fs>>
       \/ /\ Return("err", fs, missing)
          /\ UNCHANGED mtrees
    /\ UNCHANGED <<metaDisk, meta, mtreePath, todo, needsLayer, paths, missing, desc,
                   storeCalls, archiverCalls, metaWrites, start, whiteouts>>
    /\ CloseOnReturn
    /\ UNCHANGED <<tempdir, archived>>
    /\ UNCHANGED <<epsVars, xVars>>

\* lines 294-297: os.Remove(mtreePath); meta.From = ...{Walk: {desc}}
RemoveOldManifest ==
    /\ pc = "rmold"
    /\ mtrees' = RemoveFile(mtrees, mtreePath)
    /\ meta' = NewWalk(meta, desc)
    /\ pc' = "writemeta"
    /\ UNCHANGED <<fs, metaDisk, mtreePath, todo, needsLayer, paths, missing, desc,
                   result, storeCalls, archiverCalls, metaWrites, start, whiteouts>>
    /\ CloseOnReturn
    /\ UNCHANGED <<tempdir, archived>>
    /\ UNCHANGED <<epsVars, xVars>>

\* lines 298-303: err = umoci.WriteBundleMeta(bundlepath, meta); return
WriteBundleMeta ==
    /\ pc = "writemeta"
    /\ metaWrites' = metaWrites + 1
    /\ \/ /\ metaDisk' = meta
          /\ Return("ok", fs, missing)
       \/ /\ UNCHANGED metaDisk
          /\ Return("err", fs, missing)
    /\ UNCHANGED <<mtrees, meta, mtreePath, todo, needsLayer, paths, missing, desc,
                   storeCalls, archiverCalls, start, whiteouts>>
    /\ CloseOnReturn
    /\ UNCHANGED <<tempdir, archived>>
    /\ UNCHANGED <<epsVars, xVars>>

Next ==
    \/ Begin
    \/ StepModifiedExtra
    \/ StepMissing
    \/ StepSame
    \/ LoopExit
    \/ RunMakeSquashfs
    \/ AddBlob
    \/ GenerateBundleManifest
    \/ RemoveOldManifest
    \/ WriteBundleMeta

Spec == Init /\ [][Next]_vars

----------------------------------------------------------------------------
(* Properties of GenerateSquashfsLayer                                      *)

Running == pc \in {"loop", "squash", "addblob", "manifest", "rmold", "writemeta"}

AllSame(ds) == \A d \in ds : d.type = "Same"

SkipErrnos == {"ENOENT", "ENOTDIR"}

\* C4: when every filtered diff entry is Same, the call returns success and
\* at no point adds a blob, runs the archiver, writes the meta, touches the
\* rootfs or touches the manifest files.
C4_EmptyDiffNoOp ==
    (start.diffed /\ AllSame(start.diffs)) =>
        /\ storeCalls = 0 /\ archiverCalls = 0 /\ metaWrites = 0
        /\ metaDisk = start.metaDisk
        /\ fs = start.fs
        /\ mtrees = start.mtrees
        /\ pc = "done" => result = "ok"

\* C4 witness: a call over a diff of two or more entries, all Same, has
\* returned success.
C4_Witness ==
    /\ pc = "done" /\ result = "ok"
    /\ start.diffed /\ AllSame(start.diffs) /\ Cardinality(start.diffs) >= 2

\* C5 (as claimed): while the call runs, every Missing entry the loop has
\* handled has a character device at its path or a regular file at its
\* sidecar path, whatever mknod returned.
C5_EveryMissingMarked ==
    Running =>
        \A w \in whiteouts : fs[w.path].kind = "chr" \/ fs[w.wh].kind = "file"

\* C5 (amended): the same, except for the entries whose mknod failed with
\* ENOENT or ENOTDIR: those are skipped and get neither marker.
C5_MissingMarkedUnlessSkipped ==
    Running =>
        \A w \in whiteouts :
            IF w.errno \in SkipErrnos
            THEN fs[w.path].kind # "chr" /\ fs[w.wh] = start.fs[w.wh]
            ELSE fs[w.path].kind = "chr" \/ fs[w.wh].kind = "file"

\* C5 witness: the loop has handled one entry whose mknod was refused with
\* EPERM and that has its sidecar file, and one whose mknod failed with
\* ENOTDIR.
C5_Witness ==
    /\ Running
    /\ \E w \in whiteouts :
        w.errno = "EPERM" /\ fs[w.path].kind = "none" /\ fs[w.wh].kind = "file"
    /\ \E w \in whiteouts : w.errno = "ENOTDIR"

\* C6 (as claimed): after a successful call that produced a layer, the
\* persisted meta's from.Walk is the one descriptor the store returned and the
\* manifest file named after that descriptor's digest exists.
C6_DescriptorRoundTrip ==
    (pc = "done" /\ result = "ok" /\ storeCalls > 0) =>
        /\ metaDisk = <<desc>>
        /\ Exists(mtrees, Join(<<BundlePath, ReplaceColon(desc.digest) \o MtreeSuffix>>))

\* C7: once the call has returned, with success or with an error, no
\* character device that its mknod calls created is left in the rootfs.
C7_NoWhiteoutLeftBehind ==
    result # "none" =>
        \A w \in whiteouts : w.errno = "ok" => fs[w.path].kind # "chr"

\* C7 witness: the call created a device node for one Missing entry, failed
\* on the sidecar file of another one, and has returned the error.
C7_Witness ==
    /\ pc = "done" /\ result = "err"
    /\ \E w \in whiteouts : w.errno = "ok" /\ fs[w.path].kind = "none"
    /\ \E w \in whiteouts : w.sidecar = "failed"

\* C8 (as claimed): EPERM falls back to the sidecar, ENOENT and ENOTDIR are
\* skipped, and after any other mknod error the call returns an error and the
\* entry has no sidecar file.
C8_OtherErrorsFatal ==
    \A w \in whiteouts :
        /\ w.errno = "EPERM" => w.sidecar # "none"
        /\ w.errno \in SkipErrnos => w.sidecar = "none"
        /\ w.errno \notin (SkipErrnos \cup {"ok", "EPERM"}) =>
                result = "err" /\ fs[w.wh].kind # "file"

\* C8 (amended): ENOENT and ENOTDIR are skipped; every other mknod error,
\* permission denied or not, falls back to the sidecar file; the call fails at
\* this step only when the sidecar file cannot be created.
C8_OtherErrorsFallBack ==
    \A w \in whiteouts :
        IF w.errno \in SkipErrnos \cup {"ok"}
        THEN w.sidecar = "none" /\ fs[w.wh].kind = "none"
        ELSE \/ w.sidecar = "created" /\ fs[w.wh].kind = "file"
             \/ w.sidecar = "failed" /\ fs[w.wh].kind = "none" /\ result = "err"

\* C8 witness: mknod failed with an error other than EPERM, ENOENT, ENOTDIR,
\* the sidecar file was created and the call has returned success.
C8_Witness ==
    /\ pc = "done" /\ result = "ok"
    /\ \E w \in whiteouts : w.errno = "EACCES" /\ fs[w.wh].kind = "file"

\* C10 (as claimed): from the moment the call has read the old manifest, a
\* manifest file exists in the bundle directory at every point; the manifest
\* files change only after the store returned the descriptor; the old
\* manifest is gone only after the new one was written.
C10_ManifestAlwaysAvailable ==
    start.diffed =>
        /\ DOMAIN mtrees # {}
        /\ mtrees # start.mtrees => (storeCalls > 0 /\ pc \in {"rmold", "writemeta", "done"})
        /\ ~Exists(mtrees, mtreePath) => pc \in {"writemeta", "done"}

\* the manifest file the bundle meta named when the call began
OldManifestPath == MtreePathOf(PathDescriptor(start.metaDisk).digest)

OldManifestIntact ==
    /\ Exists(mtrees, OldManifestPath)
    /\ mtrees[OldManifestPath] = start.mtrees[OldManifestPath]

\* C11 (as claimed): when the call fails at any step up to and including the
\* write of the bundle meta, the persisted meta still names the old from
\* descriptor and the manifest file derived from its digest is still on disk.
C11_FailureLeavesBundleAsBefore ==
    (result = "err" /\ Exists(start.mtrees, OldManifestPath)) =>
        /\ metaDisk = start.metaDisk
        /\ OldManifestIntact

\* C11 (amended): a failed call never changes the persisted meta; the old
\* manifest is intact when the call fails before the meta write; when the
\* meta write itself fails the old manifest has already been removed, and
\* the new one is on disk unless it had the same name.
C11_FailureBeforeRemovalLeavesBundle ==
    (result = "err" /\ Exists(start.mtrees, OldManifestPath)) =>
        /\ metaDisk = start.metaDisk
        /\ metaWrites = 0 => OldManifestIntact
        /\ metaWrites > 0 =>
            /\ ~Exists(mtrees, OldManifestPath)
            /\ NewManifestPath(desc.digest) # OldManifestPath =>
                    Exists(mtrees, NewManifestPath(desc.digest))

\* the meta write failed after a layer with a new digest had been stored
C11_Witness ==
    /\ result = "err"
    /\ metaWrites = 1
    /\ NewManifestPath(desc.digest) # OldManifestPath
    /\ ~Exists(mtrees, OldManifestPath)

\* C13: whichever way MakeSquashfs returned (exclude list not written, output
\* file not created, mksquashfs failed, output not opened, success), neither
\* the exclude-list file nor the output file is visible in tempdir; after a
\* success the returned handle is open until GenerateSquashfsLayer returns.
C13_NoTempFileLeft ==
    /\ tempdir = {}
    /\ pc \in {"addblob", "manifest", "rmold", "writemeta"} => handle = "open"
    /\ handle # "none" => archiverCalls = 1

\* MakeSquashfs returned a handle, having written both temporary files
C13_Witness ==
    /\ pc = "addblob"
    /\ handle = "open"
    /\ Len(archived) = 1
    /\ archived[1].exclude # {}
    /\ tempdir = {}

\* the rootfs paths of the filtered diff entries of the given types
DiffPaths(types) == {HostPath(d.path) : d \in {x \in start.diffs : x.type \in types}}

KeptPaths == DiffPaths({"Modified", "Extra", "Missing"})

\* C16 (as claimed): once the loop has announced every diff entry, in
\* whatever order, the exclude set contains every Same path that is not a
\* kept path or a directory above one; no unchanged sibling of a kept path
\* is missing from it.
C16_EverySameSiblingExcluded ==
    pc = "squash" =>
        \A x \in DiffPaths({"Same"}) :
            (\A k \in KeptPaths : ~IsAncestorOrSelf(x, k)) => x \in paths.exclude

\* C17 (as claimed): when the whiteout of a Missing entry fell back to the
\* sidecar file, the sidecar's path is in the include list.
C17_SidecarIncluded ==
    \A w \in whiteouts : w.sidecar = "created" => w.wh \in IncludeSet(paths)

\* C17 (amended): when the whiteout of a Missing entry fell back to the
\* sidecar file, the include decision made is the one for the Missing path
\* itself, and no directory above the sidecar is in the exclude set.
C17_SidecarParentsNotExcluded ==
    \A w \in whiteouts :
        w.sidecar = "created" =>
            /\ w.path \in IncludeSet(paths)
            /\ \A x \in paths.exclude : ~IsStrictAncestor(x, w.wh)

\* the sidecar was created below an unchanged directory the loop has visited
C17_Witness ==
    /\ pc = "squash"
    /\ \E w \in whiteouts :
        /\ w.sidecar = "created"
        /\ fs[w.wh].kind = "file"
        /\ w.wh \notin IncludeSet(paths)
        /\ Dir(w.wh) \in DiffPaths({"Same"})
        /\ Dir(w.wh) \notin paths.exclude

\* the call has returned and its diff loop had visited every entry without
\* an error
LoopCompleted ==
    /\ pc = "done"
    /\ start.diffed
    /\ todo = {}
    /\ \A w \in whiteouts : w.sidecar # "failed"

Changed == ~AllSame(start.diffs)

\* C18 (as claimed): in a call whose diff loop completes without error,
\* mksquashfs and AddBlobNoCompression are each invoked, once, if and only if
\* some filtered diff entry is Modified, Extra or Missing.
C18_LayerIffChanged ==
    LoopCompleted =>
        /\ archiverCalls <= 1 /\ storeCalls <= 1
        /\ (archiverCalls = 1 /\ storeCalls = 1) <=> Changed

\* C18 (amended): each is invoked at most once and only when something
\* changed; the store is invoked only after mksquashfs ran; when something
\* changed and one of them was not invoked, the call failed in MakeSquashfs;
\* a call that returns success invoked each once exactly when something
\* changed.
C18_LayerIffChangedAndSquashed ==
    /\ storeCalls <= archiverCalls /\ archiverCalls <= 1
    /\ archiverCalls = 1 => (start.diffed /\ Changed)
    /\ LoopCompleted =>
        /\ (Changed /\ storeCalls = 0) => (result = "err" /\ handle = "none")
        /\ result = "ok" => ((archiverCalls = 1 /\ storeCalls = 1) <=> Changed)

\* a changed rootfs, a completed loop, a layer built and stored, success
C18_Witness ==
    /\ LoopCompleted
    /\ Changed
    /\ result = "ok"
    /\ archiverCalls = 1 /\ storeCalls = 1

\* the marker of whiteout record w is present in rootfs tree f
MarkerIn(f, w) ==
    /\ w.errno = "ok" => f[w.path].kind = "chr"
    /\ w.sidecar = "created" => f[w.wh].kind = "file"

\* C19: every whiteout marker created for a Missing entry is in the rootfs
\* mksquashfs is given and stays there until the call returns, after
\* mksquashfs has exited; the manifest files change only after the blob was
\* handed to the store; the bundle meta is written after all of these, as
\* the last step before the return.
C19_StepOrder ==
    /\ \A i \in 1..Len(archived) : \A w \in whiteouts : MarkerIn(archived[i].fs, w)
    /\ pc # "done" => \A w \in whiteouts : MarkerIn(fs, w)
    /\ Len(archived) = archiverCalls
    /\ storeCalls > 0 => archiverCalls = 1
    /\ mtrees # start.mtrees => (storeCalls = 1 /\ desc # <<>>)
    /\ metaDisk # start.metaDisk => metaWrites = 1
    /\ metaWrites > 0 =>
        /\ pc = "done"
        /\ storeCalls = 1
        /\ mtrees # start.mtrees

\* a call that made a device-node whiteout, archived it, wrote the meta and
\* removed the whiteout on return
C19_Witness ==
    /\ pc = "done" /\ result = "ok"
    /\ metaWrites = 1
    /\ \E w \in whiteouts :
        /\ w.errno = "ok"
        /\ archived[1].fs[w.path].kind = "chr"
        /\ fs[w.path].kind = "none"

\* the filtered diff a call starting now would compute, lines 196-220
NextCallDiffs ==
    FilterDeltas(CompareSame(mtrees[MtreePathOf(PathDescriptor(metaDisk).digest)],
                             Walk(fs)))

\* C20 (as claimed): after a successful call that produced a layer, the
\* manifest the meta now names describes the rootfs as the call left it, so
\* the diff of an immediately following call has Same entries only; also
\* when the call made device-node whiteouts.
C20_RepeatCallIsNoOp ==
    (/\ pc = "done" /\ result = "ok" /\ storeCalls = 1
     /\ Exists(mtrees, MtreePathOf(PathDescriptor(metaDisk).digest))) =>
        /\ mtrees[MtreePathOf(PathDescriptor(metaDisk).digest)] = Walk(fs)
        /\ AllSame(NextCallDiffs)

----------------------------------------------------------------------------
(* SpecExtract: one call of ExtractSingleSquash                             *)

Squashtool == <<"s", "q", "u", "a", "s", "h", "t", "o", "o", "l">>
Unsquashfs == <<"u", "n", "s", "q", "u", "a", "s", "h", "f", "s">>

\* errors.Errorf("must have squashtool (https://github.com/anuvu/squashfs) ...")
ErrNoSquashtool ==
    "must have squashtool (https://github.com/anuvu/squashfs) to correctly extract squashfs using btrfs storage backend"

\* strings.ContainsRune(name, os.PathSeparator)
ContainsSlash(name) == \E i \in 1..Len(name) : name[i] = Slash

\* path.IsAbs(name)
IsAbs(name) == name # <<>> /\ name[1] = Slash

\* the candidates whichSearch tries, in order
SearchList(name, dirs) ==
    IF ContainsSlash(name)
    THEN IF IsAbs(name) THEN <<name>> ELSE << <<".", "/">> \o name >>
    ELSE [i \in 1..Len(dirs) |-> Join(<<dirs[i], name>>)]

\* mutant: the first candidate is returned without asking unix.Access
whichSearch_NoAccessCheck(name, dirs, x) ==
    LET search == SearchList(name, dirs)
    IN  IF search = <<>> THEN <<>> ELSE search[1]

\* whichSearch(name, paths), with x the files unix.Access(f, X_OK) accepts;
\* the empty string is <<>>
whichSearch(name, dirs, x) ==
    LET search == SearchList(name, dirs)
        hits == {i \in 1..Len(search) : search[i] \in x}
    IN  IF hits = {} THEN <<>>
        ELSE search[CHOOSE i \in hits : \A j \in hits : i <= j]

\* which(name): whichSearch over strings.Split(os.Getenv("PATH"), ":")
which(name) == whichSearch(name, envPath, execs)

\* os.MkdirAll(extractDir, 0755): the states of the directory it can leave,
\* with whether it returned an error
MkdirAllOutcomes(d) ==
    IF d = "absent"
    THEN {[dir |-> "empty", err |-> FALSE], [dir |-> "absent", err |-> TRUE]}
    ELSE {[dir |-> d, err |-> FALSE]}

\* uCmd for the btrfs backend (squashFile and extractDir are the last two words)
SquashtoolCmd ==
    <<"squashtool", "extract", "--whiteouts", "--perms", "--devs", "--sockets",
      "--owners", "squashFile", "extractDir">>

\* uCmd for every other backend
UnsquashfsCmd == <<"unsquashfs", "-f", "-d", "extractDir", "squashFile">>

\* $PATH split at ":": "", "/bin", "/opt", "/opt:/bin", "/bin:/opt"
EnvPaths ==
    { << <<>> >>,
      << <<"/", "b", "i", "n">> >>,
      << <<"/", "o", "p", "t">> >>,
      << <<"/", "o", "p", "t">>, <<"/", "b", "i", "n">> >>,
      << <<"/", "b", "i", "n">>, <<"/", "o", "p", "t">> >> }

\* the executables that may or may not be installed
Installable ==
    { Join(<< <<"/", "b", "i", "n">>, Squashtool >>),
      Join(<< <<"/", "o", "p", "t">>, Squashtool >>),
      Join(<< <<"/", "b", "i", "n">>, Unsquashfs >>),
      Squashtool }

InitExtract ==
    /\ EpsIdle
    /\ GenIdle
    /\ xpc = "idle"
    /\ xdir \in {"absent", "empty", "full"}
    /\ xdir0 = xdir
    /\ envPath \in EnvPaths
    /\ execs \in SUBSET Installable
    /\ storageType \in {"btrfs", "overlay"}
    /\ xcmd = <<>>
    /\ xresult = "none"

\* lines 307-310: err := os.MkdirAll(extractDir, 0755)
ExtractMkdirAll ==
    /\ xpc = "idle"
    /\ \E o \in MkdirAllOutcomes(xdir) :
        /\ xdir' = o.dir
        /\ IF o.err
           THEN xpc' = "done" /\ xresult' = "err_mkdir"
           ELSE xpc' = "tool" /\ UNCHANGED xresult
    /\ UNCHANGED <<xdir0, envPath, execs, storageType, xcmd>>
    /\ UNCHANGED <<epsVars, genVars>>

\* lines 312-329: pick the tool and run it
ExtractRunTool ==
    /\ xpc = "tool"
    /\ xpc' = "done"
    /\ IF storageType = "btrfs" /\ which(Squashtool) = <<>>
       THEN /\ xresult' = ErrNoSquashtool
            /\ UNCHANGED <<xcmd, xdir>>
       ELSE /\ xcmd' = IF storageType = "btrfs" THEN SquashtoolCmd ELSE UnsquashfsCmd
            /\ LET tool == IF storageType = "btrfs" THEN Squashtool ELSE Unsquashfs
               IN  \/ \* the tool ran and exited with status 0
                      /\ whichSearch(tool, envPath, execs) # <<>>
                      /\ xresult' = "ok"
                      /\ xdir' = "full"
                   \/ \* the tool could not be started, or it failed part way
                      /\ xresult' = "err_run"
                      /\ \/ UNCHANGED xdir
                         \/ /\ whichSearch(tool, envPath, execs) # <<>>
                            /\ xdir' = "full"
    /\ UNCHANGED <<xdir0, envPath, execs, storageType>>
    /\ UNCHANGED <<epsVars, genVars>>

NextExtract == ExtractMkdirAll \/ ExtractRunTool

SpecExtract == InitExtract /\ [][NextExtract]_vars

\* no directory of $PATH holds an executable squashtool
NoSquashtoolOnPath ==
    \A i \in 1..Len(envPath) : Join(<<envPath[i], Squashtool>>) \notin execs

\* C9 (as claimed): with the btrfs backend and no squashtool on PATH a call
\* that gets as far as looking for the tool returns the error naming
\* squashtool and its URL, runs no tool, and leaves the extract directory as
\* it was, so absent when it was absent.
C9_NoToolNoSideEffect ==
    (xpc = "done" /\ xresult # "err_mkdir" /\ storageType = "btrfs" /\ NoSquashtoolOnPath) =>
        /\ xresult = ErrNoSquashtool
        /\ xcmd = <<>>
        /\ xdir = xdir0

\* C9 (amended): with the btrfs backend and no squashtool on PATH the call
\* runs no tool and leaves an existing extract directory as it was; an absent
\* directory has been created, empty, before the error naming squashtool and
\* its URL is returned, unless creating it failed, which is the error returned
\* then.
C9_NoToolDirCreatedFirst ==
    (xpc = "done" /\ storageType = "btrfs" /\ NoSquashtoolOnPath) =>
        /\ xcmd = <<>>
        /\ \/ /\ xresult = ErrNoSquashtool
              /\ xdir = (IF xdir0 = "absent" THEN "empty" ELSE xdir0)
           \/ /\ xresult = "err_mkdir"
              /\ xdir0 = "absent" /\ xdir = "absent"

\* C9 witness: the extract directory did not exist, squashtool is on no
\* directory of PATH while PATH is not empty and other tools are installed,
\* and the call has returned the squashtool error, leaving an empty directory.
C9_Witness ==
    /\ xpc = "done" /\ storageType = "btrfs" /\ NoSquashtoolOnPath
    /\ Len(envPath) = 2 /\ execs # {}
    /\ xdir0 = "absent" /\ xdir = "empty"
    /\ xresult = ErrNoSquashtool

====
